---- MODULE Spec2Model ----
(***************************************************************************)
(* Fin-Pilot: the Binance query agent (a LangGraph workflow of four nodes  *)
(* behind process_query) and the Pinecone-backed snapshot store it reads.  *)
(*                                                                         *)
(* Python strings are TLA+ strings, except the user query, which is the    *)
(* sequence of its blank-separated words (the code looks for substrings in *)
(* it).  A Python dict is a record whose DOMAIN is the dict's key set.     *)
(* None is the empty string NoneValue: both are falsy in Python, and no    *)
(* error message of the code is empty.                                     *)
(***************************************************************************)
EXTENDS Integers, Sequences, FiniteSets, TLC

\* ------------------------------------------------------------------ bounds
\* snapshots carry the timestamps 1..MaxTime
MaxTime == 2
\* at most MaxHits hits in one web search result
MaxHits == 2
\* the chunk documents kept per stored snapshot
MaxChunks == 1

Timestamps == 1..MaxTime
\* portfolio payloads: "small" fits one splitter chunk, "large" does not
Payloads == {"small", "large"}
\* str(e) of the exceptions the collaborators raise
ExcTexts == {"timeout"}
\* user queries, word by word
Queries == { <<"Hello", "there">>, <<"my", "Bitcoin", "value">>, <<"ETH", "price", "trend">> }

NoneValue == ""

\* ------------------------------------------------------------ Python helpers
\* bool(x) of a string
Truthy(x) == x # ""

\* d.get(k, default)
Get(d, k, default) == IF k \in DOMAIN d THEN d[k] ELSE default

\* str.lower() of one word of the vocabulary
LowerWord(w) ==
    CASE w = "Bitcoin" -> "bitcoin"
      [] w = "Hello" -> "hello"
      [] w = "ETH" -> "eth"
      [] w = "BINANCE" -> "binance"
      [] OTHER -> w

\* the terms of the keyword list that are substrings of a (lower-cased) word
TermsInWord(w) ==
    CASE w = "cryptocurrency" -> {"crypto", "cryptocurrency"}
      [] w = "crypto" -> {"crypto"}
      [] w = "bitcoin" -> {"bitcoin"}
      [] w = "binance" -> {"binance"}
      [] OTHER -> {}

\* search_query.lower()
Lower(q) == [i \in 1..Len(q) |-> LowerWord(q[i])]

\* term in text, for a term without blanks: it lies inside one word
TermIn(term, text) == \E i \in 1..Len(text) : term \in TermsInWord(text[i])

\* ------------------------------------------------------- the language model
\* one call of chain.invoke: the reply text, or an exception
LLMReplies(texts) ==
    {[ok |-> TRUE, text |-> t] : t \in texts} \cup {[ok |-> FALSE, text |-> e] : e \in ExcTexts}

SimpleTexts == {"SIMPLE", "COMPLEX", "Answer: SIMPLE"}
ClassifyTexts == {"NEEDS_WEB_SEARCH", "PORTFOLIO_DATA_ONLY", "-> NEEDS_WEB_SEARCH"}
AnswerTexts == {"Your portfolio is worth 10 USDT.", ""}

\* label in classification, for the reply texts above
LabelIn(label, text) == text \in {label, "Answer: " \o label, "-> " \o label}

\* ------------------------------------------------------------ snapshot store
\* the portfolio object handed to store_portfolio_data
PortfolioData(p) == [holdings |-> p]

\* json.dumps(data, indent=2)
dumps(data) ==
    IF "holdings" \in DOMAIN data
    THEN "{\"holdings\": \"" \o data.holdings \o "\"}"
    ELSE "{\"raw_content\": \"" \o data.raw_content \o "\"}"

\* json.loads(text) succeeds on the texts json.dumps wrote
IsJson(text) == \E p \in Payloads : dumps(PortfolioData(p)) = text

loads(text) == PortfolioData(CHOOSE p \in Payloads : dumps(PortfolioData(p)) = text)

\* text_splitter.split_documents: a text within chunk_size is one chunk, the
\* whole text; a longer one is cut into fragments, none of them a JSON text
split_text(data) ==
    IF data.holdings = "small"
    THEN <<dumps(data)>>
    ELSE [i \in 1..MaxChunks |-> "fragment " \o ToString(i) \o " of " \o data.holdings]

\* vector_id = f"portfolio_{timestamp...}"
vector_id(timestamp) == "portfolio_" \o ToString(timestamp)

\* the documents _store_data adds for one snapshot taken at `timestamp`
_store_data(timestamp, data) ==
    LET id == vector_id(timestamp)
        chunks == split_text(data)
    IN  {[page_content |-> dumps(data),
          metadata |-> [timestamp |-> timestamp, portfolio_id |-> id,
                        type |-> "portfolio_data", chunk_id |-> id \o "_complete",
                        is_complete |-> TRUE]]}
        \cup
        {[page_content |-> chunks[i],
          metadata |-> [timestamp |-> timestamp, portfolio_id |-> id,
                        type |-> "portfolio_data",
                        chunk_id |-> id \o "_chunk_" \o ToString(i - 1),
                        is_chunk |-> TRUE]] : i \in 1..Len(chunks)}

\* the index contents after the snapshots of f (timestamp -> payload) were stored
IndexOf(f) == UNION {_store_data(ts, PortfolioData(f[ts])) : ts \in DOMAIN f}

\* the two metadata filters the searches use
FilterComplete(doc) ==
    doc.metadata.type = "portfolio_data" /\ Get(doc.metadata, "is_complete", FALSE) = TRUE

FilterPortfolio(doc) == doc.metadata.type = "portfolio_data"

\* the sequences of n distinct documents of S (all of S when it has fewer)
RECURSIVE TopRanked(_, _)
TopRanked(S, n) ==
    IF n = 0 \/ S = {} THEN {<<>>}
    ELSE UNION {{<<d>> \o r : r \in TopRanked(S \ {d}, n - 1)} : d \in S}

IsPrefix(s, t) == Len(s) <= Len(t) /\ SubSeq(t, 1, Len(s)) = s

\* vectorstore.similarity_search(query, k, filter): the k best-ranked
\* documents that pass the filter, best first; which documents rank best for
\* a query is the index's choice
similarity_search_complete(index, k) ==
    TopRanked({doc \in index : FilterComplete(doc)}, k)

similarity_search_portfolio(index, k) ==
    TopRanked({doc \in index : FilterPortfolio(doc)}, k)

\* two searches of one query rank the documents they share the same way
SameRanking(complete_docs, chunk_docs) ==
    LET shared == SelectSeq(chunk_docs, FilterComplete)
    IN  IsPrefix(shared, complete_docs) \/ IsPrefix(complete_docs, shared)

\* the loop over docs: one entry per portfolio id not seen yet, at most top_k
RECURSIVE CollectPortfolios(_, _, _, _)
CollectPortfolios(docs, top_k, seen, acc) ==
    IF docs = <<>> THEN acc
    ELSE LET doc == Head(docs)
             portfolio_id == Get(doc.metadata, "portfolio_id", NoneValue)
         IN  IF ~Truthy(portfolio_id) \/ portfolio_id \in seen
             THEN CollectPortfolios(Tail(docs), top_k, seen, acc)
             ELSE LET portfolio_data ==
                          IF IsJson(doc.page_content)
                          THEN loads(doc.page_content)
                          ELSE [raw_content |-> doc.page_content]
                      entry == [timestamp |-> doc.metadata.timestamp,
                                portfolio |-> portfolio_data,
                                chunk_id |-> Get(doc.metadata, "chunk_id", NoneValue)]
                      acc2 == Append(acc, entry)
                  IN  IF Len(acc2) >= top_k THEN acc2
                      ELSE CollectPortfolios(Tail(docs), top_k,
                                             seen \cup {portfolio_id}, acc2)

\* the entries left in the order they were collected
MostRecentFirst_unsorted(entries) == entries[1]

\* similar_portfolios.sort(key=timestamp, reverse=True)[0]: the stable sort
\* puts first the earliest-listed entry among those with the greatest timestamp
MostRecentFirst(entries) ==
    LET first == CHOOSE i \in 1..Len(entries) :
                     /\ \A j \in 1..Len(entries) : entries[j].timestamp <= entries[i].timestamp
                     /\ \A j \in 1..(i - 1) : entries[j].timestamp < entries[i].timestamp
    IN  entries[first]

\* VectorDBStorage.search_similar_portfolios_sync(query, top_k);
\* complete_docs and chunk_docs are what the two similarity searches give
\* (the second is made only when the first gave fewer than top_k), `fails`
\* a similarity search that raises (caught at the end: the empty list is
\* returned)
search_similar_portfolios_sync(complete_docs, chunk_docs, top_k, fails) ==
    IF fails THEN <<>>
    ELSE LET docs == IF Len(complete_docs) >= top_k
                     THEN complete_docs
                     ELSE complete_docs \o chunk_docs
             similar_portfolios == CollectPortfolios(docs, top_k, {}, <<>>)
         IN  IF similar_portfolios # <<>>
             THEN <<MostRecentFirst(similar_portfolios)>>
             ELSE <<>>

\* VectorDBStorage.search_similar_portfolios(query, top_k), the coroutine:
\* the same two searches, the same loop, the same sort
search_similar_portfolios(complete_docs, chunk_docs, top_k, fails) ==
    IF fails THEN <<>>
    ELSE LET docs == IF Len(complete_docs) >= top_k
                     THEN complete_docs
                     ELSE complete_docs \o chunk_docs
             similar_portfolios == CollectPortfolios(docs, top_k, {}, <<>>)
         IN  IF similar_portfolios # <<>>
             THEN LET most_recent == <<MostRecentFirst(similar_portfolios)>>
                  IN  most_recent
             ELSE <<>>

\* ------------------------------------------------------- the agent's state
VARIABLES
    pc,               \* where process_query stands: the node to run next
    query,            \* the argument of the running process_query
    state,            \* the AgentState threaded through the graph
    result,           \* what process_query returned
    vectorstore,      \* the documents in the Pinecone index
    small_talk,       \* the small-talk classifier's reply in this invocation
    steps,            \* the nodes executed in this invocation, in order
    retriever_calls,  \* the store searches made in this invocation
    web_calls,        \* the queries handed to the web search tool
    errors,           \* the errors the nodes recorded, in order
    retrieval,        \* what the store search of this invocation met and gave
    prompt,           \* the inputs of the response prompt of this invocation
    answer_llm,       \* the outcome of the answer-writing model call
    web_tool,         \* the outcome of the web search tool call of this invocation
    previous,         \* the last store search answered before this invocation
    calls,            \* the get_holdings calls made: what was fetched and returned
    tasks,            \* the background snapshot writes get_holdings started
    now,              \* the clock datetime.now() reads
    inv,              \* process_query invocations that run side by side
    heap,             \* the chat_history list objects of those invocations
    search,           \* a store search made through both search methods
    _access_token,    \* KitePortfolioManager._access_token
    _portfolio_manager, \* KitePortfolioManager._portfolio_manager
    kite_call         \* the last call of a KitePortfolioManager method

vars == <<pc, query, state, result, vectorstore, small_talk, steps,
          retriever_calls, web_calls, errors, retrieval, prompt, answer_llm,
          web_tool, previous, calls, tasks, now, inv, heap, search,
          _access_token, _portfolio_manager, kite_call>>

storeVars == <<calls, tasks, now>>

pairVars == <<inv, heap>>

searchVars == <<search>>

kiteVars == <<_access_token, _portfolio_manager, kite_call>>

agentVars == <<pc, query, state, result, small_talk, steps, retriever_calls, web_calls,
               errors, retrieval, prompt, answer_llm, web_tool, previous>>

\* the invocations followed side by side
InvIds == {1, 2}

Nodes == {"classify_query", "retrieve_context", "search_web", "generate_response"}

\* initial_state of process_query
InitialState(q) ==
    [query |-> q, context |-> <<>>, needs_web_search |-> FALSE,
     web_search_results |-> "", response |-> "", chat_history |-> <<>>,
     error |-> NoneValue]

\* no AgentState exists outside the graph run
NoState == InitialState(<<>>)
NoResult == [status |-> "none"]
NoReply == [ok |-> FALSE, text |-> "not called"]
NoRetrieval ==
    [searched |-> FALSE, fails |-> FALSE, raised |-> FALSE, returned |-> <<>>,
     complete_docs |-> <<>>, chunk_docs |-> <<>>]
NoTool == [kind |-> "none", exc |-> NoneValue, structured |-> FALSE, hits |-> <<>>]
NoInvocation ==
    [pc |-> "idle", query |-> <<>>, state |-> [NoState EXCEPT !.chat_history = 0],
     result |-> NoResult]
NoPrevious ==
    [query |-> <<>>, complete_docs |-> <<>>, chunk_docs |-> <<>>, returned |-> <<>>,
     context |-> <<>>]
NoPrompt == [query |-> <<>>, portfolio_context |-> "", web_search_section |-> ""]

\* "sep".join(parts)
RECURSIVE Join(_, _)
Join(sep, parts) ==
    IF parts = <<>> THEN ""
    ELSE IF Len(parts) = 1 THEN parts[1]
    ELSE parts[1] \o sep \o Join(sep, Tail(parts))

\* ------------------------------------------------------------ graph nodes
\* a failed classification that asks for the web search
_classify_query_fail_search(st, llm) ==
    IF llm.ok
    THEN [st EXCEPT !.needs_web_search = LabelIn("NEEDS_WEB_SEARCH", llm.text)]
    ELSE [st EXCEPT !.error = "Error classifying query: " \o llm.text,
                    !.needs_web_search = TRUE]

\* _classify_query: llm is the outcome of classify_chain.invoke
_classify_query(st, llm) ==
    IF llm.ok
    THEN [st EXCEPT !.needs_web_search = LabelIn("NEEDS_WEB_SEARCH", llm.text)]
    ELSE [st EXCEPT !.error = "Error classifying query: " \o llm.text]

NoDataContext ==
    "No relevant portfolio data was found. The system may need more portfolio data to answer this query effectively."
RetrieveErrorContext == "Could not retrieve portfolio data due to an error."

\* the context line of one search result
RenderSnapshot(item) ==
    "LATEST PORTFOLIO DATA (as of " \o ToString(item.timestamp) \o "):\n"
        \o dumps(item.portfolio)

\* the context left empty when the store returned nothing
_retrieve_context_no_fallback(st, similar_portfolios, exc) ==
    IF exc = NoneValue
    THEN [st EXCEPT !.context = [i \in 1..Len(similar_portfolios) |->
                                    RenderSnapshot(similar_portfolios[i])]]
    ELSE [st EXCEPT !.error = "Error retrieving context: " \o exc,
                    !.context = <<RetrieveErrorContext>>]

\* the context built only from snapshots the previous invocation did not show
_retrieve_context_once(st, similar_portfolios, exc) ==
    IF exc = NoneValue
    THEN LET fresh == SelectSeq(similar_portfolios,
                                LAMBDA item : \A i \in 1..Len(previous.returned) :
                                                  previous.returned[i] # item)
             context == [i \in 1..Len(fresh) |-> RenderSnapshot(fresh[i])]
         IN  [st EXCEPT !.context = IF context = <<>> THEN <<NoDataContext>> ELSE context]
    ELSE [st EXCEPT !.error = "Error retrieving context: " \o exc,
                    !.context = <<RetrieveErrorContext>>]

\* _retrieve_context: similar_portfolios is what the store search returned,
\* exc the str(e) of an exception raised inside the try body (NoneValue: none)
_retrieve_context(st, similar_portfolios, exc) ==
    IF exc = NoneValue
    THEN LET context == [i \in 1..Len(similar_portfolios) |->
                             RenderSnapshot(similar_portfolios[i])]
         IN  [st EXCEPT !.context = IF context = <<>> THEN <<NoDataContext>> ELSE context]
    ELSE [st EXCEPT !.error = "Error retrieving context: " \o exc,
                    !.context = <<RetrieveErrorContext>>]

\* the branch also taken when an error is on the state
_should_search_web_or_error(st) ==
    Get(st, "needs_web_search", FALSE) \/ Truthy(Get(st, "error", NoneValue))

\* _should_search_web
_should_search_web(st) == Get(st, "needs_web_search", FALSE)

CryptoTerms == {"crypto", "bitcoin", "binance", "cryptocurrency"}

\* the keywords looked for in the query as typed
search_query_as_typed(q) ==
    IF ~(\E term \in CryptoTerms : TermIn(term, q))
    THEN q \o <<"cryptocurrency", "binance">>
    ELSE q

\* the query _search_web hands to the tool
search_query(q) ==
    IF ~(\E term \in CryptoTerms : TermIn(term, Lower(q)))
    THEN q \o <<"cryptocurrency", "binance">>
    ELSE q

\* a search hit is a dict; the tool may also hand back an element that is none
IsDict(hit) == "py_type" \notin DOMAIN hit
NotADict == [py_type |-> "str"]

Hits ==
    { [source |-> "coindesk", title |-> "ETH rallies", content |-> "ETH is up 5%"],
      [title |-> "ETH", snippet |-> "short"],
      [url |-> "https://y.io"],
      NotADict }

RECURSIVE SeqsUpTo(_, _)
SeqsUpTo(S, n) ==
    IF n = 0 THEN {<<>>}
    ELSE SeqsUpTo(S, n - 1) \cup
         {Append(s, x) : s \in {t \in SeqsUpTo(S, n - 1) : Len(t) = n - 1}, x \in S}

\* what the web search tool call does: raise, a list of hits, or another shape
ToolOutcomes ==
    {[kind |-> "raise", exc |-> e] : e \in ExcTexts}
    \cup {[kind |-> "list", hits |-> h] : h \in SeqsUpTo(Hits, MaxHits)}
    \cup {[kind |-> "other", repr |-> "ConnectionError('no route')"]}

\* the content taken from the content field alone
FormatHit_content_only(hit) ==
    "Source: " \o Get(hit, "source", "Unknown source")
        \o "\nTitle: " \o Get(hit, "title", "No title")
        \o "\nContent: " \o Get(hit, "content", "No content available")
        \o "\n"

\* the f-string _search_web appends for one hit
FormatHit(hit) ==
    "Source: " \o Get(hit, "source", "Unknown source")
        \o "\nTitle: " \o Get(hit, "title", "No title")
        \o "\nContent: " \o Get(hit, "content", Get(hit, "snippet", "No content available"))
        \o "\n"

\* the hits of a list are all dicts
Structured(hits) == \A i \in 1..Len(hits) : IsDict(hits[i])

\* what is kept of a tool call: its kind, the exception text, and of a list
\* whether every hit was a dict and, if so, the hits (the others end alike)
ToolLog(tool) ==
    [kind |-> tool.kind,
     exc |-> Get(tool, "exc", NoneValue),
     structured |-> tool.kind = "list" /\ Structured(tool.hits),
     hits |-> IF tool.kind = "list" /\ Structured(tool.hits) THEN tool.hits ELSE <<>>]

WebFailedText == "Web search failed, proceeding with available portfolio data only."

\* the tool's exception left to the handler of the whole step
_search_web_tool_uncaught(st, tool) ==
    IF tool.kind = "other"
    THEN [st EXCEPT !.web_search_results =
             "Search resulted in unexpected format: " \o tool.repr \o "..."]
    ELSE IF tool.kind = "raise"
    THEN [st EXCEPT !.error = "Error searching web: " \o tool.exc,
                    !.web_search_results = WebFailedText]
    ELSE IF \E i \in 1..Len(tool.hits) : ~IsDict(tool.hits[i])
    THEN [st EXCEPT !.error = "Error searching web: "
                                  \o "'str' object has no attribute 'get'",
                    !.web_search_results = WebFailedText]
    ELSE LET formatted_results == [i \in 1..Len(tool.hits) |-> FormatHit(tool.hits[i])]
         IN  [st EXCEPT !.web_search_results =
                  IF formatted_results # <<>>
                  THEN Join("\n", formatted_results)
                  ELSE "No relevant search results found."]

\* an empty hit list that leaves web_search_results empty
_search_web_no_fallback(st, tool) ==
    LET search_results ==
            IF tool.kind = "raise"
            THEN <<[source |-> "Error", title |-> "Search Failed",
                    content |-> "Web search tool error: " \o tool.exc]>>
            ELSE IF tool.kind = "list" THEN tool.hits
            ELSE <<>>
    IN  IF tool.kind = "other"
        THEN [st EXCEPT !.web_search_results =
                 "Search resulted in unexpected format: " \o tool.repr \o "..."]
        ELSE IF \E i \in 1..Len(search_results) : ~IsDict(search_results[i])
        THEN [st EXCEPT !.error = "Error searching web: "
                                      \o "'str' object has no attribute 'get'",
                        !.web_search_results = WebFailedText]
        ELSE LET formatted_results ==
                     [i \in 1..Len(search_results) |-> FormatHit(search_results[i])]
             IN  [st EXCEPT !.web_search_results = Join("\n", formatted_results)]

\* the augmented search query written back to the state
_search_web_rewrites_query(st, tool) ==
    LET search_results ==
            IF tool.kind = "raise"
            THEN <<[source |-> "Error", title |-> "Search Failed",
                    content |-> "Web search tool error: " \o tool.exc]>>
            ELSE IF tool.kind = "list" THEN tool.hits
            ELSE <<>>
    IN  IF tool.kind = "other"
        THEN [st EXCEPT !.query = search_query(st.query),
                        !.web_search_results =
                            "Search resulted in unexpected format: " \o tool.repr \o "..."]
        ELSE IF \E i \in 1..Len(search_results) : ~IsDict(search_results[i])
        THEN [st EXCEPT !.error = "Error searching web: "
                                      \o "'str' object has no attribute 'get'",
                        !.web_search_results = WebFailedText]
        ELSE LET formatted_results ==
                     [i \in 1..Len(search_results) |-> FormatHit(search_results[i])]
             IN  [st EXCEPT !.query = search_query(st.query),
                            !.web_search_results =
                                IF formatted_results # <<>>
                                THEN Join("\n", formatted_results)
                                ELSE "No relevant search results found."]

\* _search_web: tool is the outcome of the web search tool call
_search_web(st, tool) ==
    LET search_results ==
            IF tool.kind = "raise"
            THEN <<[source |-> "Error", title |-> "Search Failed",
                    content |-> "Web search tool error: " \o tool.exc]>>
            ELSE IF tool.kind = "list" THEN tool.hits
            ELSE <<>>
    IN  IF tool.kind = "other"
        THEN [st EXCEPT !.web_search_results =
                 "Search resulted in unexpected format: " \o tool.repr \o "..."]
        ELSE IF \E i \in 1..Len(search_results) : ~IsDict(search_results[i])
        THEN [st EXCEPT !.error = "Error searching web: "
                                      \o "'str' object has no attribute 'get'",
                        !.web_search_results = WebFailedText]
        ELSE LET formatted_results ==
                     [i \in 1..Len(search_results) |-> FormatHit(search_results[i])]
             IN  [st EXCEPT !.web_search_results =
                      IF formatted_results # <<>>
                      THEN Join("\n", formatted_results)
                      ELSE "No relevant search results found."]

GenerateApology ==
    "I'm sorry, I encountered an error while generating a response. Please try again."

\* the inputs _generate_response puts into its prompt
ResponsePrompt(st) ==
    LET portfolio_context == Join("\n\n", Get(st, "context", <<>>))
        web_context == Get(st, "web_search_results", "")
    IN  [query |-> st.query,
         portfolio_context |-> IF Truthy(portfolio_context) THEN portfolio_context
                               ELSE "No relevant portfolio data found.",
         web_search_section |-> IF Truthy(web_context)
                                THEN "Web Search Results:\n" \o web_context
                                ELSE "No external data was needed to answer this query."]

\* a failed answer that records the error and leaves response as it was
_generate_response_no_apology(st, llm) ==
    IF llm.ok
    THEN [st EXCEPT !.response = llm.text,
                    !.chat_history = Get(st, "chat_history", <<>>)
                        \o <<[role |-> "user", content |-> st.query],
                             [role |-> "assistant", content |-> llm.text]>>]
    ELSE [st EXCEPT !.error = "Error generating response: " \o llm.text]

\* a successful answer written onto a state whose error is reset
_generate_response_clears(st, llm) ==
    IF llm.ok
    THEN [st EXCEPT !.response = llm.text,
                    !.error = NoneValue,
                    !.chat_history = Get(st, "chat_history", <<>>)
                        \o <<[role |-> "user", content |-> st.query],
                             [role |-> "assistant", content |-> llm.text]>>]
    ELSE [st EXCEPT !.error = "Error generating response: " \o llm.text,
                    !.response = GenerateApology]

\* _generate_response: llm is the outcome of response_chain.invoke
_generate_response(st, llm) ==
    IF llm.ok
    THEN [st EXCEPT !.response = llm.text,
                    !.chat_history = Get(st, "chat_history", <<>>)
                        \o <<[role |-> "user", content |-> st.query],
                             [role |-> "assistant", content |-> llm.text]>>]
    ELSE [st EXCEPT !.error = "Error generating response: " \o llm.text,
                    !.response = GenerateApology]

\* the edges with a failed generate_response run once more
NextNode_retry(node, st) ==
    CASE node = "classify_query" -> "retrieve_context"
      [] node = "retrieve_context" ->
             IF _should_search_web(st) THEN "search_web" ELSE "generate_response"
      [] node = "search_web" -> "generate_response"
      [] node = "generate_response" ->
             IF st.response = GenerateApology /\ Len(steps) < 4
             THEN "generate_response" ELSE "END"

\* the edges with the run ended as soon as a node recorded an error
NextNode_abort(node, st) ==
    IF Truthy(st.error) THEN "END"
    ELSE CASE node = "classify_query" -> "retrieve_context"
           [] node = "retrieve_context" ->
                  IF _should_search_web(st) THEN "search_web" ELSE "generate_response"
           [] node = "search_web" -> "generate_response"
           [] node = "generate_response" -> "END"

\* the edges of _create_graph: the node that follows `node` in state st
NextNode(node, st) ==
    CASE node = "classify_query" -> "retrieve_context"
      [] node = "retrieve_context" ->
             IF _should_search_web(st) THEN "search_web" ELSE "generate_response"
      [] node = "search_web" -> "generate_response"
      [] node = "generate_response" -> "END"

\* ------------------------------------------------------ the small-talk exit
\* the label compared for equality instead of searched for in the reply
_is_simple_query_exact(llm) == IF llm.ok THEN llm.text = "SIMPLE" ELSE FALSE

\* a failed small-talk check that answers SIMPLE
_is_simple_query_fail_simple(llm) == IF llm.ok THEN LabelIn("SIMPLE", llm.text) ELSE TRUE

\* _is_simple_query: llm is the outcome of classify_chain.invoke
_is_simple_query(llm) == IF llm.ok THEN LabelIn("SIMPLE", llm.text) ELSE FALSE

GreetTexts == {"Hi! I can help with your crypto portfolio.", ""}

FallbackGreeting ==
    "Hello! I'm your Binance portfolio assistant. I can help you with information about your cryptocurrency holdings, portfolio performance, and market trends. How can I assist you today?"

\* a failed reply reported as an error result
_get_simple_response_error(q, llm) ==
    IF llm.ok
    THEN [status |-> "success",
          response |-> llm.text,
          chat_history |-> <<[role |-> "user", content |-> q],
                             [role |-> "assistant", content |-> llm.text]>>]
    ELSE [status |-> "error",
          message |-> "Error generating simple response: " \o llm.text,
          response |-> FallbackGreeting]

\* _get_simple_response: llm is the outcome of response_chain.invoke
_get_simple_response(q, llm) ==
    LET response == IF llm.ok THEN llm.text ELSE FallbackGreeting
    IN  [status |-> "success",
         response |-> response,
         chat_history |-> <<[role |-> "user", content |-> q],
                            [role |-> "assistant", content |-> response]>>]

\* the error result that shows the recorded error as the response
ProcessQueryResult_error_shown(final) ==
    IF Truthy(Get(final, "error", NoneValue))
    THEN [status |-> "error",
          message |-> final.error,
          response |-> final.error]
    ELSE [status |-> "success",
          response |-> final.response,
          chat_history |-> Get(final, "chat_history", <<>>)]

\* the error result with the default response in place of the state's
ProcessQueryResult_default(final) ==
    IF Truthy(Get(final, "error", NoneValue))
    THEN [status |-> "error",
          message |-> final.error,
          response |-> "I encountered an error processing your query."]
    ELSE [status |-> "success",
          response |-> final.response,
          chat_history |-> Get(final, "chat_history", <<>>)]

\* process_query after graph.invoke: the dict built from the final state
ProcessQueryResult(final) ==
    IF Truthy(Get(final, "error", NoneValue))
    THEN [status |-> "error",
          message |-> final.error,
          response |-> Get(final, "response", "I encountered an error processing your query.")]
    ELSE [status |-> "success",
          response |-> final.response,
          chat_history |-> Get(final, "chat_history", <<>>)]

\* ---------------------------------------------------------------- actions
\* no store search was made through both methods
NoSearch == [made |-> FALSE]

\* None, where the empty string is a value of its own
None == "None"

NoCall == [method |-> "none"]

\* self._portfolio_manager = None
NoDataManager == [built |-> FALSE, access_token |-> None]

\* KitePortfolioManager.__init__
KiteConstructed ==
    /\ _access_token = None
    /\ _portfolio_manager = NoDataManager
    /\ kite_call = NoCall

\* the index outlives the process: at construction it holds the documents of
\* any snapshots stored before
\* no process_query was called yet
AgentIdle ==
    /\ pc = "idle"
    /\ query = <<>>
    /\ state = NoState
    /\ result = NoResult
    /\ small_talk = NoReply
    /\ steps = <<>>
    /\ retriever_calls = <<>>
    /\ web_calls = <<>>
    /\ errors = <<>>
    /\ retrieval = NoRetrieval
    /\ prompt = NoPrompt
    /\ answer_llm = NoReply
    /\ web_tool = NoTool
    /\ previous = NoPrevious

\* the agent over an index that holds any snapshots taken at Timestamps
Init ==
    /\ AgentIdle
    /\ search = NoSearch
    /\ KiteConstructed
    /\ \E S \in SUBSET Timestamps : \E f \in [S -> Payloads] : vectorstore = IndexOf(f)
    /\ calls = <<>>
    /\ tasks = <<>>
    /\ now = MaxTime + 1
    /\ inv = [i \in InvIds |-> NoInvocation]
    /\ heap = <<>>

\* process_query up to graph.invoke: the small-talk check, then either the
\* direct reply or the initial state of the graph run
process_query ==
    /\ pc \in {"idle", "returned"}
    /\ \E q \in Queries, simple_llm \in LLMReplies(SimpleTexts) :
          /\ query' = q
          /\ small_talk' = simple_llm
          /\ IF _is_simple_query(simple_llm)
             THEN /\ \E reply_llm \in LLMReplies(GreetTexts) :
                         /\ result' = _get_simple_response(q, reply_llm)
                         /\ answer_llm' = reply_llm
                  /\ state' = NoState
                  /\ pc' = "returned"
             ELSE /\ result' = NoResult
                  /\ answer_llm' = NoReply
                  /\ state' = InitialState(q)
                  /\ pc' = "classify_query"
    /\ steps' = <<>>
    /\ retriever_calls' = <<>>
    /\ web_calls' = <<>>
    /\ errors' = <<>>
    /\ retrieval' = NoRetrieval
    /\ prompt' = NoPrompt
    /\ web_tool' = NoTool
    /\ previous' = IF retrieval.searched /\ ~retrieval.fails
                   THEN [query |-> query,
                         complete_docs |-> retrieval.complete_docs,
                         chunk_docs |-> retrieval.chunk_docs,
                         returned |-> retrieval.returned,
                         context |-> state.context]
                   ELSE previous
    /\ UNCHANGED <<vectorstore, storeVars, pairVars, searchVars, kiteVars>>

\* what every node run does besides its own work: the step is logged, an
\* error the node recorded is logged, the graph moves along its edge
RunNode(node, new, failed) ==
    /\ state' = new
    /\ steps' = Append(steps, node)
    /\ errors' = IF failed THEN Append(errors, [node |-> node, error |-> new.error])
                 ELSE errors
    /\ pc' = NextNode(node, new)
    /\ UNCHANGED <<query, result, vectorstore, small_talk, previous, storeVars, pairVars,
                   searchVars, kiteVars>>

classify_query ==
    /\ pc = "classify_query"
    /\ \E llm \in LLMReplies(ClassifyTexts) :
          RunNode("classify_query", _classify_query(state, llm), ~llm.ok)
    /\ UNCHANGED <<retriever_calls, web_calls, retrieval, prompt, answer_llm, web_tool>>

\* the node runs the store search with top_k = 1.  The second similarity
\* search is made only when the first gave no document; a search that raises
\* gives no documents; the index, nothing stored or deleted since, answers
\* the query of the last search as it answered it then
retrieve_context ==
    /\ pc = "retrieve_context"
    /\ \E fails \in BOOLEAN :
       \E complete_docs \in IF fails THEN {<<>>}
                             ELSE similarity_search_complete(vectorstore, 1) :
       \E chunk_docs \in IF fails \/ Len(complete_docs) >= 1 THEN {<<>>}
                          ELSE similarity_search_portfolio(vectorstore, 1 * 2) :
          LET similar_portfolios ==
                  search_similar_portfolios_sync(complete_docs, chunk_docs, 1, fails)
          IN  /\ SameRanking(complete_docs, chunk_docs)
              /\ (~fails /\ previous.query = state.query) =>
                     /\ complete_docs = previous.complete_docs
                     /\ chunk_docs = previous.chunk_docs
              /\ retrieval' = [searched |-> TRUE, fails |-> fails, raised |-> FALSE,
                               returned |-> similar_portfolios,
                               complete_docs |-> complete_docs,
                               chunk_docs |-> chunk_docs]
              /\ RunNode("retrieve_context",
                         _retrieve_context(state, similar_portfolios, NoneValue),
                         FALSE)
    /\ retriever_calls' = Append(retriever_calls, [query |-> state.query, top_k |-> 1])
    /\ UNCHANGED <<web_calls, prompt, answer_llm, web_tool>>

search_web ==
    /\ pc = "search_web"
    /\ \E tool \in ToolOutcomes :
          /\ RunNode("search_web", _search_web(state, tool),
                     tool.kind = "list"
                         /\ \E i \in 1..Len(tool.hits) : ~IsDict(tool.hits[i]))
          /\ web_tool' = ToolLog(tool)
    /\ web_calls' = Append(web_calls, search_query(state.query))
    /\ UNCHANGED <<retriever_calls, retrieval, prompt, answer_llm>>

generate_response ==
    /\ pc = "generate_response"
    /\ \E llm \in LLMReplies(AnswerTexts) :
          /\ RunNode("generate_response", _generate_response(state, llm), ~llm.ok)
          /\ answer_llm' = llm
    /\ prompt' = ResponsePrompt(state)
    /\ UNCHANGED <<retriever_calls, web_calls, retrieval, web_tool>>

\* process_query from the end of graph.invoke to its return
process_query_return ==
    /\ pc = "END"
    /\ result' = ProcessQueryResult(state)
    /\ pc' = "returned"
    /\ UNCHANGED <<query, state, vectorstore, small_talk, steps, retriever_calls,
                   web_calls, errors, retrieval, prompt, answer_llm, web_tool,
                   previous, storeVars, pairVars, searchVars, kiteVars>>

Next ==
    \/ process_query
    \/ classify_query
    \/ retrieve_context
    \/ search_web
    \/ generate_response
    \/ process_query_return

Spec == Init /\ [][Next]_vars

\* ------------------------------------------------ the snapshot store's writes
\* the get_holdings calls of one run
MaxCalls == 2

MAX_PORTFOLIO_RECORDS == 5

\* what client.get_formatted_holdings hands back: the holdings, or an error dict
FetchOutcomes ==
    {[status |-> "success", data |-> PortfolioData(p)] : p \in Payloads}
    \cup {[status |-> "error", message |-> "Binance API unavailable"]}

\* the snapshots of an index, by timestamp
SnapshotsOf(index) == {doc.metadata.timestamp : doc \in index}

NoOutcome == [kind |-> "pending"]

\* the write run to its end, and failed, before get_holdings goes on
create_task_inline(data) ==
    [pc |-> "done", data |-> data, timestamp |-> 0, vector_id |-> NoneValue,
     records_to_delete |-> <<>>,
     swallowed |-> <<>>, outcome |-> [kind |-> "raise", exc |-> "timeout"],
     log |-> "Error storing holdings in vector DB: timeout", escaped |-> "timeout",
     before |-> {}, after |-> {}, overlapped |-> FALSE]

\* asyncio.create_task(self._update_vector_db(data)): the coroutine is
\* scheduled on the running loop, none of it has run when create_task returns
create_task(data) ==
    [pc |-> "scheduled", data |-> data, timestamp |-> 0, vector_id |-> NoneValue,
     records_to_delete |-> <<>>,
     swallowed |-> <<>>, outcome |-> NoOutcome, log |-> "", escaped |-> NoneValue,
     before |-> {}, after |-> {}, overlapped |-> FALSE]

\* get_holdings: the value it hands back, and the writes it starts
HoldingsReturn(holdings_data) == holdings_data

UpdatesVectorDb(holdings_data) ==
    IF holdings_data.status = "success" THEN <<create_task(holdings_data.data)>> ELSE <<>>

\* the add_documents call of _store_data that raises, if one does
StoreFailures == {"none", "complete_doc", "chunks"}

\* the index after _store_data ran at `timestamp`
StoredIndex(index, timestamp, data, failure) ==
    LET docs == _store_data(timestamp, data)
    IN  CASE failure = "none" -> index \cup docs
          [] failure = "chunks" -> index \cup {doc \in docs : FilterComplete(doc)}
          [] failure = "complete_doc" -> index

\* sorted(portfolio_data.keys(), key=timestamp): oldest first
RECURSIVE SortedByTimestamp(_)
SortedByTimestamp(pairs) ==
    IF pairs = {} THEN <<>>
    ELSE LET oldest == CHOOSE x \in pairs : \A y \in pairs : x.timestamp <= y.timestamp
         IN  <<oldest.portfolio_id>> \o SortedByTimestamp(pairs \ {oldest})

\* _get_all_portfolio_ids: the ids of the documents that carry portfolio_id,
\* timestamp and chunk_id, oldest first; the empty list when the search
\* raises (the index holds fewer than the 1000 documents the search asks for)
_get_all_portfolio_ids(index, fails) ==
    IF fails THEN <<>>
    ELSE LET docs == {doc \in index : FilterPortfolio(doc)}
             portfolio_data ==
                 {[portfolio_id |-> doc.metadata.portfolio_id,
                   timestamp |-> doc.metadata.timestamp] :
                      doc \in {d \in docs : /\ Truthy(Get(d.metadata, "portfolio_id", NoneValue))
                                            /\ "timestamp" \in DOMAIN d.metadata
                                            /\ "chunk_id" \in DOMAIN d.metadata}}
         IN  SortedByTimestamp(portfolio_data)

\* portfolio_ids[:-(MAX_PORTFOLIO_RECORDS - 1)], one record too many
records_to_delete_one_more(portfolio_ids) ==
    IF Len(portfolio_ids) <= MAX_PORTFOLIO_RECORDS THEN <<>>
    ELSE SubSeq(portfolio_ids, 1, Len(portfolio_ids) - (MAX_PORTFOLIO_RECORDS - 1))

\* portfolio_ids[MAX_PORTFOLIO_RECORDS:], the newest beyond the first five
records_to_delete_from_front(portfolio_ids) ==
    IF Len(portfolio_ids) <= MAX_PORTFOLIO_RECORDS THEN <<>>
    ELSE SubSeq(portfolio_ids, MAX_PORTFOLIO_RECORDS + 1, Len(portfolio_ids))

\* _prune_old_records: portfolio_ids[:-MAX_PORTFOLIO_RECORDS], none when the
\* listing has no more than MAX_PORTFOLIO_RECORDS ids
records_to_delete(portfolio_ids) ==
    IF Len(portfolio_ids) <= MAX_PORTFOLIO_RECORDS THEN <<>>
    ELSE SubSeq(portfolio_ids, 1, Len(portfolio_ids) - MAX_PORTFOLIO_RECORDS)

\* _delete_portfolio_record: the index without the documents of portfolio_id
\* (fewer than the 100 the query asks for); unchanged when a call raises
_delete_portfolio_record(index, portfolio_id, fails) ==
    IF fails THEN index
    ELSE index \ {doc \in index : Get(doc.metadata, "portfolio_id", NoneValue) = portfolio_id}

\* a prune failure handed on to the caller
store_portfolio_data_strict(task, raised) ==
    IF raised # NoneValue THEN [kind |-> "raise", exc |-> raised]
    ELSE IF task.swallowed # <<>> THEN [kind |-> "raise", exc |-> task.swallowed[1]]
    ELSE [kind |-> "return", value |-> task.vector_id]

\* store_portfolio_data: `raised` is the exception that left _store_data or
\* _prune_old_records (NoneValue: none did)
store_portfolio_data(task, raised) ==
    IF raised # NoneValue THEN [kind |-> "raise", exc |-> raised]
    ELSE [kind |-> "return", value |-> task.vector_id]

\* _update_vector_db: what it logs, and the exception that leaves it
_update_vector_db(outcome) ==
    IF outcome.kind = "raise"
    THEN [log |-> "Error storing holdings in vector DB: " \o outcome.exc,
          escaped |-> NoneValue]
    ELSE [log |-> "Successfully stored holdings in vector DB", escaped |-> NoneValue]

\* the index as earlier runs left it: empty, one short of full, or full
InitialCounts == {0, MAX_PORTFOLIO_RECORDS - 1, MAX_PORTFOLIO_RECORDS}

InitStore ==
    /\ AgentIdle
    /\ search = NoSearch
    /\ KiteConstructed
    /\ \E k \in InitialCounts :
          /\ vectorstore = IndexOf([ts \in 1..k |-> "small"])
          /\ now = k + 1
    /\ calls = <<>>
    /\ tasks = <<>>
    /\ inv = [i \in InvIds |-> NoInvocation]
    /\ heap = <<>>

get_holdings ==
    /\ Len(calls) < MaxCalls
    /\ \E holdings_data \in FetchOutcomes :
          LET started == UpdatesVectorDb(holdings_data)
          IN  /\ tasks' = tasks \o started
              /\ calls' = Append(calls,
                     [fetched |-> holdings_data,
                      returned |-> HoldingsReturn(holdings_data),
                      task |-> IF started = <<>> THEN 0 ELSE Len(tasks) + 1,
                      write |-> IF started = <<>> THEN "none" ELSE started[1].pc])
    /\ UNCHANGED <<vectorstore, now, agentVars, pairVars, searchVars, kiteVars>>

\* a write between its _store_data and its return
MidCycle(task) == task.pc \in {"_prune_old_records", "_delete_portfolio_record"}

\* write i becomes `new`; writes that run while another is between its
\* store and its return are marked as overlapped
Step(i, new) ==
    tasks' = [k \in 1..Len(tasks) |->
                 IF k = i
                 THEN [new EXCEPT !.overlapped =
                          @ \/ \E j \in 1..Len(tasks) : j # i /\ MidCycle(tasks[j])]
                 ELSE IF MidCycle(tasks[k]) THEN [tasks[k] EXCEPT !.overlapped = TRUE]
                 ELSE tasks[k]]

\* store_portfolio_data ends and _update_vector_db with it
Finish(task, index, raised) ==
    LET outcome == store_portfolio_data(task, raised)
    IN  [task EXCEPT !.pc = "done", !.outcome = outcome,
                     !.log = _update_vector_db(outcome).log,
                     !.escaped = _update_vector_db(outcome).escaped,
                     !.after = SnapshotsOf(index)]

\* the first executor call of store_portfolio_data
store_data(i) ==
    /\ tasks[i].pc = "scheduled"
    /\ \E failure \in StoreFailures :
          LET index == StoredIndex(vectorstore, now, tasks[i].data, failure)
              task == [tasks[i] EXCEPT !.timestamp = now, !.before = SnapshotsOf(index)]
          IN  /\ vectorstore' = index
              /\ IF failure = "none"
                 THEN Step(i, [task EXCEPT !.pc = "_prune_old_records",
                                           !.vector_id = vector_id(now)])
                 ELSE Step(i, Finish(task, index, "timeout"))
    /\ now' = now + 1
    /\ UNCHANGED <<calls, agentVars, pairVars, searchVars, kiteVars>>

\* the second executor call, up to the first delete
prune_old_records(i) ==
    /\ tasks[i].pc = "_prune_old_records"
    /\ \E fails \in BOOLEAN :
          LET portfolio_ids == _get_all_portfolio_ids(vectorstore, fails)
              task == [tasks[i] EXCEPT
                          !.records_to_delete = records_to_delete(portfolio_ids),
                          !.swallowed = IF fails
                                        THEN Append(@, "Error getting portfolio IDs: timeout")
                                        ELSE @]
          IN  IF task.records_to_delete = <<>>
              THEN Step(i, Finish(task, vectorstore, NoneValue))
              ELSE Step(i, [task EXCEPT !.pc = "_delete_portfolio_record"])
    /\ UNCHANGED <<vectorstore, calls, now, agentVars, pairVars, searchVars, kiteVars>>

\* one turn of the loop over records_to_delete
delete_portfolio_record(i) ==
    /\ tasks[i].pc = "_delete_portfolio_record"
    /\ \E fails \in BOOLEAN :
          LET portfolio_id == Head(tasks[i].records_to_delete)
              index == _delete_portfolio_record(vectorstore, portfolio_id, fails)
              task == [tasks[i] EXCEPT
                          !.records_to_delete = Tail(@),
                          !.swallowed = IF fails
                                        THEN Append(@, "Error deleting portfolio record "
                                                           \o portfolio_id \o ": timeout")
                                        ELSE @]
          IN  /\ vectorstore' = index
              /\ IF task.records_to_delete = <<>>
                 THEN Step(i, Finish(task, index, NoneValue))
                 ELSE Step(i, task)
    /\ UNCHANGED <<calls, now, agentVars, pairVars, searchVars, kiteVars>>

NextStore ==
    \/ get_holdings
    \/ \E i \in 1..Len(tasks) : store_data(i)
    \/ \E i \in 1..Len(tasks) : prune_old_records(i)
    \/ \E i \in 1..Len(tasks) : delete_portfolio_record(i)

SpecStore == InitStore /\ [][NextStore]_vars

\* ------------------------------------- the manager's process_query
\* no manager process_query is between its get_holdings and the return of
\* the query agent: the event loop is free to run other coroutines
LoopFree == \A c \in 1..Len(calls) : Get(calls[c], "agent", "none") # "running"

\* BinancePortfolioManager.process_query up to the call of the query agent:
\* get_holdings fetches and, on success, schedules the snapshot write
manager_process_query ==
    /\ Len(calls) < MaxCalls
    /\ LoopFree
    /\ \E holdings_data \in FetchOutcomes :
          LET started == UpdatesVectorDb(holdings_data)
          IN  /\ tasks' = tasks \o started
              /\ calls' = Append(calls,
                     [fetched |-> holdings_data,
                      returned |-> HoldingsReturn(holdings_data),
                      task |-> IF started = <<>> THEN 0 ELSE Len(tasks) + 1,
                      write |-> IF started = <<>> THEN "none" ELSE started[1].pc,
                      agent |-> "running",
                      write_at_retrieval |-> "none",
                      visible |-> {},
                      similar_portfolios |-> <<>>,
                      context |-> <<>>])
    /\ UNCHANGED <<vectorstore, now, agentVars, pairVars, searchVars, kiteVars>>

\* query_agent.process_query(query_text), called without an await: a plain
\* function that runs to its end on the event loop's thread.  Of its run the
\* part that meets the store is kept: the small-talk check and, for any
\* other query, the store search of retrieve_context and the context it
\* builds; the manager then returns the agent's result
query_agent_process_query ==
    /\ \E c \in 1..Len(calls) :
          /\ Get(calls[c], "agent", "none") = "running"
          /\ \E simple_llm \in LLMReplies(SimpleTexts) :
                IF _is_simple_query(simple_llm)
                THEN calls' = [calls EXCEPT ![c].agent = "small talk"]
                ELSE \E fails \in BOOLEAN :
                     \E complete_docs \in IF fails THEN {<<>>}
                                           ELSE similarity_search_complete(vectorstore, 1) :
                     \E chunk_docs \in IF fails \/ Len(complete_docs) >= 1 THEN {<<>>}
                                        ELSE similarity_search_portfolio(vectorstore, 1 * 2) :
                        LET similar_portfolios ==
                                search_similar_portfolios_sync(complete_docs, chunk_docs,
                                                               1, fails)
                            st == _retrieve_context(InitialState(<<"my", "Bitcoin", "value">>),
                                                    similar_portfolios, NoneValue)
                        IN  /\ SameRanking(complete_docs, chunk_docs)
                            /\ calls' = [calls EXCEPT
                                   ![c].agent = "retrieved",
                                   ![c].write_at_retrieval =
                                       IF calls[c].task = 0 THEN "none"
                                       ELSE tasks[calls[c].task].pc,
                                   ![c].visible = SnapshotsOf(vectorstore),
                                   ![c].similar_portfolios = similar_portfolios,
                                   ![c].context = st.context]
    /\ UNCHANGED <<vectorstore, tasks, now, agentVars, pairVars, searchVars, kiteVars>>

\* a coroutine of a write is resumed only by a free event loop; the deletes
\* of a prune go on in their executor thread
NextManager ==
    \/ manager_process_query
    \/ query_agent_process_query
    \/ \E i \in 1..Len(tasks) : LoopFree /\ store_data(i)
    \/ \E i \in 1..Len(tasks) : LoopFree /\ prune_old_records(i)
    \/ \E i \in 1..Len(tasks) : delete_portfolio_record(i)

SpecManager == InitStore /\ [][NextManager]_vars

\* --------------------------------------- writes that overtake a write
\* the writes under way at a time
MaxInFlight == 2

\* one call more than the store keeps snapshots
RaceCalls == MAX_PORTFOLIO_RECORDS + 1

\* the writes get_holdings started that have not ended
InFlight == Cardinality({i \in 1..Len(tasks) : tasks[i].pc # "done"})

\* get_holdings, called while fewer than MaxInFlight writes are under way
get_holdings_under_load ==
    /\ Len(calls) < RaceCalls
    /\ InFlight < MaxInFlight
    /\ \E holdings_data \in FetchOutcomes :
          LET started == UpdatesVectorDb(holdings_data)
          IN  /\ tasks' = tasks \o started
              /\ calls' = Append(calls,
                     [fetched |-> holdings_data,
                      returned |-> HoldingsReturn(holdings_data),
                      task |-> IF started = <<>> THEN 0 ELSE Len(tasks) + 1,
                      write |-> IF started = <<>> THEN "none" ELSE started[1].pc])
    /\ UNCHANGED <<vectorstore, now, agentVars, pairVars, searchVars, kiteVars>>

\* a new, empty index
InitRace == InitStore /\ vectorstore = {}

\* the runs in which Binance and the index answer every call: every fetch
\* gives the same holdings, no add_documents, listing or delete raises
NextRace ==
    \/ /\ get_holdings_under_load
       /\ calls'[Len(calls')].fetched = [status |-> "success", data |-> PortfolioData("small")]
    \/ \E i \in 1..Len(tasks) : store_data(i) /\ tasks'[i].pc # "done"
    \/ \E i \in 1..Len(tasks) : prune_old_records(i) /\ tasks'[i].swallowed = <<>>
    \/ \E i \in 1..Len(tasks) : delete_portfolio_record(i) /\ tasks'[i].swallowed = <<>>

SpecRace == InitRace /\ [][NextRace]_vars

\* ------------------------------------------- the two search methods
\* the top_k values the searches are asked for: the agent's 1 and two more
TopKs == {1, 2, 3}

\* an index that holds any snapshots taken at Timestamps, some of them
\* without their chunk documents (the second add_documents of their
\* _store_data raised)
InitSearch ==
    /\ AgentIdle
    /\ search = NoSearch
    /\ KiteConstructed
    /\ \E S \in SUBSET Timestamps :
       \E f \in [S -> Payloads \X {"none", "chunks"}] :
          vectorstore = UNION {StoredIndex({}, ts, PortfolioData(f[ts][1]), f[ts][2]) : ts \in S}
    /\ calls = <<>>
    /\ tasks = <<>>
    /\ now = MaxTime + 1
    /\ inv = [i \in InvIds |-> NoInvocation]
    /\ heap = <<>>

\* one query put to search_similar_portfolios_sync and to
\* search_similar_portfolios on the same index: the index gives both the
\* same documents, or fails both
search_both ==
    /\ ~search.made
    /\ \E top_k \in TopKs, fails \in BOOLEAN :
       \E complete_docs \in IF fails THEN {<<>>}
                             ELSE similarity_search_complete(vectorstore, top_k) :
       \E chunk_docs \in IF fails \/ Len(complete_docs) >= top_k THEN {<<>>}
                          ELSE similarity_search_portfolio(vectorstore, top_k * 2) :
          /\ SameRanking(complete_docs, chunk_docs)
          /\ search' = [made |-> TRUE, top_k |-> top_k, fails |-> fails,
                        docs |-> complete_docs \o chunk_docs,
                        complete |-> Len(complete_docs),
                        sync |-> search_similar_portfolios_sync(complete_docs, chunk_docs,
                                                                top_k, fails),
                        async |-> search_similar_portfolios(complete_docs, chunk_docs,
                                                            top_k, fails)]
    /\ UNCHANGED <<vectorstore, agentVars, storeVars, pairVars, kiteVars>>

NextSearch == search_both

SpecSearch == InitSearch /\ [][NextSearch]_vars

\* ------------------------------------------- invocations side by side
\* the web search outcomes with at most one hit
PairToolOutcomes == {tool \in ToolOutcomes : tool.kind = "list" => Len(tool.hits) <= 1}

\* one list object, made once, handed to every invocation
NewList_shared(lists) == 1

\* the list object the `[]` of initial_state makes: one that did not exist
NewList(lists) == Len(lists) + 1

\* the state dict with the chat_history list in place of the reference to it
Deref(st) == [st EXCEPT !.chat_history = heap[st.chat_history]]

InitPair ==
    /\ AgentIdle
    /\ search = NoSearch
    /\ KiteConstructed
    /\ \E S \in SUBSET {1} : vectorstore = IndexOf([ts \in S |-> "small"])
    /\ calls = <<>>
    /\ tasks = <<>>
    /\ now = 2
    /\ inv = [i \in InvIds |-> NoInvocation]
    /\ heap = <<>>

\* process_query of invocation i up to graph.invoke
pair_process_query(i) ==
    /\ inv[i].pc = "idle"
    /\ \E q \in Queries, simple_llm \in LLMReplies(SimpleTexts) :
          IF _is_simple_query(simple_llm)
          THEN /\ \E reply_llm \in LLMReplies(GreetTexts) :
                      inv' = [inv EXCEPT ![i] = [pc |-> "returned", query |-> q,
                                                 state |-> NoInvocation.state,
                                                 result |-> _get_simple_response(q, reply_llm)]]
               /\ heap' = heap
          ELSE LET chat_history == NewList(heap)
               IN  /\ inv' = [inv EXCEPT ![i] =
                                [pc |-> "classify_query", query |-> q,
                                 state |-> [InitialState(q) EXCEPT
                                               !.chat_history = chat_history],
                                 result |-> NoResult]]
                   /\ heap' = IF chat_history > Len(heap) THEN Append(heap, <<>>) ELSE heap
    /\ UNCHANGED <<vectorstore, agentVars, storeVars, searchVars, kiteVars>>

\* a node of invocation i ran and gave the state `new`: the dict of the
\* invocation is replaced, the list its chat_history refers to is updated
PairRun(i, node, new) ==
    /\ inv' = [inv EXCEPT ![i].state = [new EXCEPT !.chat_history = inv[i].state.chat_history],
                          ![i].pc = NextNode(node, new)]
    /\ heap' = [heap EXCEPT ![inv[i].state.chat_history] = new.chat_history]
    /\ UNCHANGED <<vectorstore, agentVars, storeVars, searchVars, kiteVars>>

pair_classify_query(i) ==
    /\ inv[i].pc = "classify_query"
    /\ \E llm \in LLMReplies(ClassifyTexts) :
          PairRun(i, "classify_query", _classify_query(Deref(inv[i].state), llm))

pair_retrieve_context(i) ==
    /\ inv[i].pc = "retrieve_context"
    /\ \E fails \in BOOLEAN :
       \E complete_docs \in IF fails THEN {<<>>}
                             ELSE similarity_search_complete(vectorstore, 1) :
       \E chunk_docs \in IF fails \/ Len(complete_docs) >= 1 THEN {<<>>}
                          ELSE similarity_search_portfolio(vectorstore, 1 * 2) :
          PairRun(i, "retrieve_context",
                  _retrieve_context(Deref(inv[i].state),
                                    search_similar_portfolios_sync(complete_docs, chunk_docs,
                                                                   1, fails),
                                    NoneValue))

pair_search_web(i) ==
    /\ inv[i].pc = "search_web"
    /\ \E tool \in PairToolOutcomes :
          PairRun(i, "search_web", _search_web(Deref(inv[i].state), tool))

pair_generate_response(i) ==
    /\ inv[i].pc = "generate_response"
    /\ \E llm \in LLMReplies(AnswerTexts) :
          PairRun(i, "generate_response", _generate_response(Deref(inv[i].state), llm))

\* process_query of invocation i from the end of graph.invoke to its return
pair_process_query_return(i) ==
    /\ inv[i].pc = "END"
    /\ inv' = [inv EXCEPT ![i].pc = "returned",
                          ![i].result = ProcessQueryResult(Deref(inv[i].state))]
    /\ UNCHANGED <<heap, vectorstore, agentVars, storeVars, searchVars, kiteVars>>

NextPair ==
    \/ \E i \in InvIds : pair_process_query(i)
    \/ \E i \in InvIds : pair_classify_query(i)
    \/ \E i \in InvIds : pair_retrieve_context(i)
    \/ \E i \in InvIds : pair_search_web(i)
    \/ \E i \in InvIds : pair_generate_response(i)
    \/ \E i \in InvIds : pair_process_query_return(i)

SpecPair == InitPair /\ [][NextPair]_vars

\* ------------------------------------------------- the Kite portfolio manager
\* A TOTP secret is the sequence of its characters: the validator and the
\* TOTP generator both look at single characters.
AccessTokens == {"token-1", "token-2"}

UserIds == {"", "AB1234"}

Passwords == {"", "secret"}

TotpSecrets ==
    { <<>>,
      <<"J", "B", "S", "W", "Y", "3", "D", "P">>,
      <<"j", "b", "s", "w", "y", "3", "d", "p">>,
      <<"J", "B", "S", "W", " ", "Y", "3", "D", "P">>,
      <<"J", "B", "S", "W", "Y", "3", "D", "1">>,
      <<"J", "B", "S", "W", "Y", "3", "D">>,
      <<"A", "A", "A", "A", "A", "A", "A", "=">>,
      <<"A", "A", "A", "A", "A", "A", "=", "=">> }

LowerCase == <<"a", "b", "c", "d", "e", "f", "g", "h", "i", "j", "k", "l", "m",
               "n", "o", "p", "q", "r", "s", "t", "u", "v", "w", "x", "y", "z">>

UpperCase == <<"A", "B", "C", "D", "E", "F", "G", "H", "I", "J", "K", "L", "M",
               "N", "O", "P", "Q", "R", "S", "T", "U", "V", "W", "X", "Y", "Z">>

Base32Alphabet == {UpperCase[i] : i \in 1..26} \cup {"2", "3", "4", "5", "6", "7"}

\* str.upper(), character by character
upper(s) ==
    [i \in 1..Len(s) |->
        IF \E k \in 1..26 : LowerCase[k] = s[i]
        THEN UpperCase[CHOOSE k \in 1..26 : LowerCase[k] = s[i]]
        ELSE s[i]]

\* str.replace(" ", "")
without_spaces(s) == SelectSeq(s, LAMBDA c : c # " ")

\* str.rstrip("=")
rstrip_padding(s) ==
    LET kept == {i \in 1..Len(s) : s[i] # "="}
        last == IF kept = {} THEN 0 ELSE CHOOSE i \in kept : \A j \in kept : j <= i
    IN SubSeq(s, 1, last)

\* re.match(r'^[A-Z2-7]+=*$', s)
matches_base32_pattern(s) ==
    LET body == rstrip_padding(s)
    IN /\ Len(body) >= 1
       /\ \A i \in 1..Len(body) : body[i] \in Base32Alphabet

_validate_totp_secret(totp_secret) ==
    LET normalised == upper(without_spaces(totp_secret))
    IN IF ~matches_base32_pattern(normalised) THEN FALSE
       ELSE IF Len(normalised) % 8 # 0 THEN FALSE
       ELSE TRUE

\* base64.b32decode(s, casefold=True): "ok" or the text of the error raised
b32decode(s) ==
    LET body == rstrip_padding(upper(s))
        padchars == Len(s) - Len(body)
    IN IF Len(s) % 8 # 0 THEN "Incorrect padding"
       ELSE IF \E i \in 1..Len(body) : body[i] \notin Base32Alphabet
            THEN "Non-base32 digit found"
       ELSE IF padchars \notin {0, 1, 3, 4, 6} THEN "Incorrect padding"
       ELSE "ok"

\* pyotp.TOTP(totp_secret).now(): the secret, padded with "=" to a multiple
\* of 8 characters, is decoded before the code is computed
TotpNow(totp_secret) ==
    LET missing_padding == Len(totp_secret) % 8
        secret == IF missing_padding # 0
                  THEN totp_secret \o [i \in 1..(8 - missing_padding) |-> "="]
                  ELSE totp_secret
    IN b32decode(secret)

\* the requests of auto_login, in the order the code makes them
LoginSteps == <<"login", "twofa", "api_login", "finish", "generate_session">>

LoginErrorPrefix(user_id) ==
    "Error while logging in to kite for user-" \o user_id \o ", Error: "

\* what the broker does to one login attempt: every step succeeds and the
\* session carries a token (an empty one included), or one step answers with
\* an unexpected status or raises, or the last redirect has no request_token
LoginRuns ==
    {[failing |-> "none", how |-> "none", text |-> "", token |-> t] :
        t \in AccessTokens \cup {""}}
    \cup {[failing |-> LoginSteps[k], how |-> "status", text |-> x, token |-> ""] :
        k \in 1..4, x \in {"Invalid credentials", "Internal server error"}}
    \cup {[failing |-> LoginSteps[k], how |-> "raise", text |-> "Read timed out",
           token |-> ""] : k \in 1..4}
    \cup {[failing |-> "request_token", how |-> "none", text |-> "", token |-> ""]}
    \cup {[failing |-> "generate_session", how |-> "raise",
           text |-> "Token is invalid or has expired.", token |-> ""]}

Raised(message, requests) ==
    [raised |-> TRUE, value |-> message, requests |-> requests]

Returned(access_token, requests) ==
    [raised |-> FALSE, value |-> access_token, requests |-> requests]

\* the exception a failing step raises
StepError(user_id, run) ==
    IF run.how = "status" THEN LoginErrorPrefix(user_id) \o run.text ELSE run.text

\* auto_login up to its return or raise: the requests made, and the token
\* returned or the message of the exception that leaves the method
auto_login(user_id, totp_secret, run) ==
    LET failing == IF \E k \in 1..5 : LoginSteps[k] = run.failing
                   THEN CHOOSE k \in 1..5 : LoginSteps[k] = run.failing
                   ELSE 0
    IN IF failing = 1 THEN Raised(StepError(user_id, run), SubSeq(LoginSteps, 1, 1))
       ELSE IF TotpNow(totp_secret) # "ok"
            THEN Raised(TotpNow(totp_secret), SubSeq(LoginSteps, 1, 1))
       ELSE IF failing \in 2..5
            THEN Raised(StepError(user_id, run), SubSeq(LoginSteps, 1, failing))
       ELSE IF run.failing = "request_token"
            THEN Raised("Failed to get access token", SubSeq(LoginSteps, 1, 4))
       ELSE Returned(run.token, LoginSteps)

\* term in error_message, for the messages auto_login raises
InMessage(term, error_message) ==
    \E prefix \in {""} \cup {LoginErrorPrefix(u) : u \in UserIds} :
        error_message = prefix \o term

ErrorResult(message) == [status |-> "error", message |-> message, access_token |-> None]

NoLoginResult == [status |-> "none", message |-> "", access_token |-> None]

\* the dict handle_auto_login returns
handle_auto_login_result(user_id, password, totp_secret, run) ==
    LET attempt == auto_login(user_id, totp_secret, run)
    IN IF user_id = "" \/ password = "" \/ totp_secret = <<>>
       THEN ErrorResult("Missing required credentials")
       ELSE IF ~_validate_totp_secret(totp_secret)
            THEN ErrorResult("Invalid TOTP secret format")
       ELSE IF ~attempt.raised
            THEN IF attempt.value = ""
                 THEN ErrorResult("Failed to get access token")
                 ELSE [status |-> "success", message |-> "",
                       access_token |-> attempt.value]
       ELSE IF InMessage("Non-base32 digit found", attempt.value)
            THEN ErrorResult("Invalid TOTP secret format")
       ELSE IF InMessage("Invalid credentials", attempt.value)
            THEN ErrorResult("Invalid credentials")
       ELSE ErrorResult("Login failed")

\* handle_auto_login reaches its call of auto_login
LoginAttempted(user_id, password, totp_secret) ==
    /\ user_id # "" /\ password # "" /\ totp_secret # <<>>
    /\ _validate_totp_secret(totp_secret)

KitePortfolioDataManager(access_token) ==
    [built |-> TRUE, access_token |-> access_token]

is_authenticated == _access_token # None

NotAuthenticated == "User not authenticated. Please login first."

_check_authentication_never ==
    NoneValue

\* _check_authentication: the message of the exception raised, or NoneValue
_check_authentication ==
    IF ~is_authenticated THEN NotAuthenticated ELSE NoneValue

\* the delegating methods, and the broker API calls the data manager makes
\* for each
Operations ==
    {"fetch_portfolio", "get_holdings", "get_positions", "get_margins",
     "get_orders", "get_trades"}

BrokerCalls(method) ==
    CASE method = "fetch_portfolio" -> <<"holdings", "positions">>
      [] method = "get_holdings" -> <<"holdings">>
      [] method = "get_positions" -> <<"positions">>
      [] method = "get_margins" -> <<"margins">>
      [] method = "get_orders" -> <<"orders">>
      [] method = "get_trades" -> <<"trades">>

\* the arguments of a call that takes no credentials
NoCredentials == [user_id |-> "", password |-> "", totp_secret |-> <<>>]

\* one call of a public method: its arguments, how it ended (the value
\* returned or the message of the exception raised), the requests it sent to
\* the broker, and the manager's fields when it was called
KiteCall(method, args, outcome, value, response, requests) ==
    [method |-> method, args |-> args, outcome |-> outcome, value |-> value,
     result |-> response, requests |-> requests, token_before |-> _access_token,
     manager_before |-> _portfolio_manager]

set_access_token ==
    /\ \E access_token \in AccessTokens :
        /\ _access_token' = access_token
        /\ _portfolio_manager' = KitePortfolioDataManager(access_token)
        /\ kite_call' = KiteCall("set_access_token", NoCredentials, "return",
                                 access_token, NoLoginResult, <<>>)
    /\ UNCHANGED <<vectorstore, agentVars, storeVars, pairVars, searchVars>>

\* fetch_portfolio, get_holdings, get_positions, get_margins, get_orders and
\* get_trades: the authentication check, then the data manager's method,
\* whose broker calls succeed or raise at the failing-th one
portfolio_operation(method) ==
    /\ \E failing \in 0..Len(BrokerCalls(method)) :
        kite_call' =
            IF _check_authentication # NoneValue
            THEN KiteCall(method, NoCredentials, "raise", _check_authentication,
                          NoLoginResult, <<>>)
            ELSE IF _portfolio_manager = NoDataManager
                 THEN KiteCall(method, NoCredentials, "raise",
                               "'NoneType' object has no attribute '" \o method \o "'",
                               NoLoginResult, <<>>)
            ELSE IF failing = 0
                 THEN KiteCall(method, NoCredentials, "return", "data", NoLoginResult,
                               BrokerCalls(method))
            ELSE KiteCall(method, NoCredentials, "raise", "Broker error", NoLoginResult,
                          SubSeq(BrokerCalls(method), 1, failing))
    /\ UNCHANGED <<_access_token, _portfolio_manager>>
    /\ UNCHANGED <<vectorstore, agentVars, storeVars, pairVars, searchVars>>

handle_auto_login ==
    /\ \E user_id \in UserIds, password \in Passwords,
          totp_secret \in TotpSecrets, run \in LoginRuns :
        LET attempted == LoginAttempted(user_id, password, totp_secret)
            attempt == auto_login(user_id, totp_secret, run)
            token_set == attempted /\ ~attempt.raised
        IN /\ _access_token' = IF token_set THEN attempt.value ELSE _access_token
           /\ _portfolio_manager' =
                IF token_set THEN KitePortfolioDataManager(attempt.value)
                ELSE _portfolio_manager
           /\ kite_call' =
                KiteCall("handle_auto_login",
                         [user_id |-> user_id, password |-> password,
                          totp_secret |-> totp_secret], "return",
                         IF attempted /\ attempt.raised THEN attempt.value ELSE "",
                         handle_auto_login_result(user_id, password, totp_secret, run),
                         IF attempted THEN attempt.requests ELSE <<>>)
    /\ UNCHANGED <<vectorstore, agentVars, storeVars, pairVars, searchVars>>

InitKite ==
    /\ AgentIdle
    /\ search = NoSearch
    /\ KiteConstructed
    /\ vectorstore = {}
    /\ calls = <<>>
    /\ tasks = <<>>
    /\ now = 1
    /\ inv = [i \in InvIds |-> NoInvocation]
    /\ heap = <<>>

NextKite ==
    \/ set_access_token
    \/ \E method \in Operations : portfolio_operation(method)
    \/ handle_auto_login

SpecKite == InitKite /\ [][NextKite]_vars

\* ------------------------------------------------------- shared vocabulary
InSteps(node) == \E i \in 1..Len(steps) : steps[i] = node

\* the classifier labelled the query of this invocation SIMPLE
LabelledSimple == small_talk.ok /\ LabelIn("SIMPLE", small_talk.text)

\* this invocation went into the graph
InPipeline == small_talk # NoReply /\ ~LabelledSimple

FailedNodes == {errors[i].node : i \in 1..Len(errors)}

\* ------------------------------------------------------------------ claims
\* C1: a query the small-talk classifier labels SIMPLE makes process_query
\* return at once: no graph node runs, the snapshot store is not searched and
\* the web search tool is not called.
C1_SimpleSkipsWorkflow ==
    LabelledSimple =>
        /\ pc = "returned"
        /\ steps = <<>>
        /\ retriever_calls = <<>>
        /\ web_calls = <<>>
        /\ retrieval = NoRetrieval
        /\ state = NoState

C1_Witness ==
    /\ pc = "returned"
    /\ LabelledSimple
    /\ small_talk.text = "Answer: SIMPLE"
    /\ result.status = "success"

\* C2: in a graph run the search_web node (and with it the web search tool)
\* runs exactly when needs_web_search is true once retrieve_context has
\* finished, whatever error, context and query are.
C2_WebSearchIffNeeded ==
    /\ InSteps("retrieve_context") =>
           ((InSteps("search_web") \/ pc = "search_web") <=> state.needs_web_search)
    /\ ~InSteps("retrieve_context") => (~InSteps("search_web") /\ pc # "search_web")
    /\ InSteps("search_web") <=> web_calls # <<>>
    /\ Len(web_calls) <= 1

C2_Witness ==
    /\ pc = "returned"
    /\ InSteps("search_web")
    /\ state.needs_web_search
    /\ web_calls = <<search_query(state.query)>>

WithWebSearch == <<"classify_query", "retrieve_context", "search_web", "generate_response">>
WithoutWebSearch == <<"classify_query", "retrieve_context", "generate_response">>

\* C3: the nodes run in the order classify_query, retrieve_context,
\* search_web (optional), generate_response; none runs twice, none is
\* re-entered after a failure, and the run ends with generate_response.
C3_FixedOrder ==
    /\ IsPrefix(steps, WithWebSearch) \/ IsPrefix(steps, WithoutWebSearch)
    /\ pc \in Nodes =>
           (IsPrefix(Append(steps, pc), WithWebSearch)
                \/ IsPrefix(Append(steps, pc), WithoutWebSearch))
    /\ (pc = "END" \/ (pc = "returned" /\ InPipeline)) =>
           steps \in {WithWebSearch, WithoutWebSearch}

C3_Witness ==
    /\ pc = "returned"
    /\ steps = WithWebSearch
    /\ "generate_response" \in FailedNodes

\* C4: a recorded error stops nothing: whichever of classify_query,
\* retrieve_context and search_web failed, every later node of the path runs,
\* generate_response among them, and the caller gets a response string.
C4_NoEarlyAbort ==
    /\ (pc \in {"END", "returned"} /\ InPipeline) =>
           /\ InSteps("classify_query")
           /\ InSteps("retrieve_context")
           /\ state.needs_web_search => InSteps("search_web")
           /\ steps[Len(steps)] = "generate_response"
    /\ (pc = "returned" /\ InPipeline) =>
           /\ "response" \in DOMAIN result
           /\ result.response \in AnswerTexts \cup {GenerateApology}

C4_Witness ==
    /\ pc = "returned"
    /\ FailedNodes = {"classify_query"}
    /\ steps = WithoutWebSearch
    /\ result.status = "error"
    /\ result.response \in AnswerTexts \ {""}

\* C5: a graph run is reported with status "error" exactly when a node
\* recorded an error; no later node clears a recorded error; the message is
\* the error of the last node that failed; a run without error is reported
\* with status "success", the response and the chat history.
C5_ErrorStatusIffRecorded ==
    /\ state.error = IF errors = <<>> THEN NoneValue ELSE errors[Len(errors)].error
    /\ \A i \in 1..Len(errors) : Truthy(errors[i].error)
    /\ (pc = "returned" /\ InPipeline) =>
           IF errors # <<>>
           THEN /\ result.status = "error"
                /\ result.message = errors[Len(errors)].error
           ELSE /\ result.status = "success"
                /\ DOMAIN result = {"status", "response", "chat_history"}
                /\ result.response = state.response
                /\ result.chat_history = state.chat_history

C5_Witness ==
    /\ pc = "returned"
    /\ Len(errors) = 2
    /\ errors[1].node = "classify_query"
    /\ errors[2].node = "generate_response"
    /\ result.status = "error"
    /\ result.message = "Error generating response: timeout"

\* C6 as stated: process_query always returns a result with status "success"
\* or "error" and a non-empty response string.
C6_NonEmptyResponse ==
    pc = "returned" =>
        /\ result.status \in {"success", "error"}
        /\ "response" \in DOMAIN result
        /\ result.response # ""

\* C6, amended: whatever the language model, the snapshot store and the web
\* search tool do, process_query returns a result with status "success" or
\* "error" and a response string; the response is empty only when the reply
\* text of the answer-writing model call is itself empty.
C6_AlwaysReturnsResponse ==
    /\ pc \in {"idle", "END", "returned"} \cup Nodes
    /\ pc = "returned" =>
           /\ result.status \in {"success", "error"}
           /\ "response" \in DOMAIN result
           /\ result.response \in AnswerTexts \cup GreetTexts
                                    \cup {GenerateApology, FallbackGreeting}
           /\ result.response = "" => (answer_llm.ok /\ answer_llm.text = "")

C6_Witness ==
    /\ pc = "returned"
    /\ retrieval.fails
    /\ ~answer_llm.ok
    /\ "classify_query" \in FailedNodes
    /\ result.status = "error"
    /\ result.response = GenerateApology

\* C7 as stated: after every invocation the caller holds a chat history of
\* exactly the pair (user: query, assistant: response); the history has even
\* length throughout and ends with the assistant entry once
\* generate_response has run, failed steps included.
C7_ChatHistoryPair ==
    /\ Len(state.chat_history) % 2 = 0
    /\ InSteps("generate_response") =>
           /\ Len(state.chat_history) = 2
           /\ state.chat_history[2].role = "assistant"
    /\ pc = "returned" =>
           /\ "chat_history" \in DOMAIN result
           /\ result.chat_history = <<[role |-> "user", content |-> query],
                                      [role |-> "assistant", content |-> result.response]>>

\* C8: when generate_response starts the context is never empty: the
\* rendered snapshot when the store returned one, the one fallback line when
\* it returned nothing, the error line when retrieval raised; an empty store
\* makes retrieve_context record no error, so the run ends with status
\* "success" when no other node fails.
C8_ContextNeverEmpty ==
    /\ InSteps("retrieve_context") =>
           /\ state.context # <<>>
           /\ \A i \in 1..Len(state.context) : Truthy(state.context[i])
           /\ state.context =
                  IF retrieval.raised THEN <<RetrieveErrorContext>>
                  ELSE IF retrieval.returned = <<>> THEN <<NoDataContext>>
                  ELSE <<RenderSnapshot(retrieval.returned[1])>>
           /\ "retrieve_context" \in FailedNodes <=> retrieval.raised
    /\ pc = "generate_response" => InSteps("retrieve_context")
    /\ (pc = "returned" /\ InPipeline /\ vectorstore = {} /\ ~retrieval.raised
            /\ FailedNodes \subseteq {"retrieve_context"}) =>
           result.status = "success"

C8_Witness ==
    /\ pc = "returned"
    /\ InPipeline
    /\ vectorstore = {}
    /\ ~retrieval.fails
    /\ state.context = <<NoDataContext>>
    /\ result.status = "success"

\* the snapshots in the index and the newest of them
StoredTimestamps == {doc.metadata.timestamp : doc \in vectorstore}

Newest == CHOOSE t \in StoredTimestamps : \A u \in StoredTimestamps : u <= t

\* C9 as stated: with at least one snapshot stored, the context comes from
\* the stored snapshot with the greatest timestamp, whichever snapshot the
\* similarity search ranks first.
C9_ContextFromNewest ==
    (InSteps("retrieve_context") /\ vectorstore # {} /\ ~retrieval.fails
         /\ ~retrieval.raised) =>
        /\ retrieval.returned # <<>>
        /\ retrieval.returned[1].timestamp = Newest
        /\ state.context = <<RenderSnapshot(retrieval.returned[1])>>

\* C10 as stated: a store search that fails during retrieve_context is
\* recorded in state.error, and the run ends with status "error".
C10_StoreFailureRecorded ==
    retrieval.fails =>
        /\ "retrieve_context" \in FailedNodes
        /\ Truthy(state.error)
        /\ pc = "returned" => result.status = "error"

C12_ClassifierFailureIsComplex ==
    (small_talk # NoReply /\ ~small_talk.ok) =>
        /\ pc \in Nodes \cup {"END", "returned"}
        /\ state.query = query
        /\ pc \in {"END", "returned"} =>
               /\ steps \in {WithWebSearch, WithoutWebSearch}
               /\ retrieval.searched
               /\ retriever_calls = <<[query |-> query, top_k |-> 1]>>
        /\ pc = "returned" =>
               result.response \in AnswerTexts \cup {GenerateApology}

C12_Witness ==
    /\ pc = "returned"
    /\ small_talk = [ok |-> FALSE, text |-> "timeout"]
    /\ steps = WithWebSearch
    /\ retrieval.returned # <<>>
    /\ result.status = "success"

\* C13: a needs-web-search classification whose model call fails records an
\* error in classify_query and leaves needs_web_search false; the run goes
\* on through retrieve_context and generate_response, and search_web and the
\* web search tool are not run.
C13_ClassifyFailureSkipsWebSearch ==
    "classify_query" \in FailedNodes =>
        /\ errors[1].node = "classify_query"
        /\ errors[1].error \in {"Error classifying query: " \o e : e \in ExcTexts}
        /\ state.needs_web_search = FALSE
        /\ ~InSteps("search_web")
        /\ pc # "search_web"
        /\ web_calls = <<>>
        /\ web_tool = NoTool
        /\ pc \in {"END", "returned"} => steps = WithoutWebSearch

C13_Witness ==
    /\ pc = "returned"
    /\ errors = <<[node |-> "classify_query",
                   error |-> "Error classifying query: timeout"]>>
    /\ steps = WithoutWebSearch
    /\ answer_llm.ok

\* C14: a web search tool that raises does not make search_web fail: no
\* error is recorded, web_search_results is the text that explains the
\* failure, and process_query returns status "success" when
\* generate_response succeeds.
C14_ToolRaiseIsExplained ==
    web_tool.kind = "raise" =>
        /\ InSteps("search_web")
        /\ "search_web" \notin FailedNodes
        /\ state.web_search_results =
               "Source: Error\nTitle: Search Failed\nContent: Web search tool error: "
                   \o web_tool.exc \o "\n"
        /\ pc = "generate_response" => state.error = NoneValue
        /\ (pc = "returned" /\ answer_llm.ok) =>
               /\ result.status = "success"
               /\ result.response = answer_llm.text

C14_Witness ==
    /\ pc = "returned"
    /\ web_tool.kind = "raise" /\ web_tool.exc = "timeout"
    /\ answer_llm.ok
    /\ result.status = "success"

\* C15: a generate_response whose model call fails sets response to the
\* fixed apology and records the error on the state; process_query then
\* returns status "error", the recorded error as message and the apology as
\* response.
C15_GenerateFailureApology ==
    (InSteps("generate_response") /\ ~answer_llm.ok) =>
        /\ state.response = GenerateApology
        /\ state.error = "Error generating response: " \o answer_llm.text
        /\ errors[Len(errors)] = [node |-> "generate_response", error |-> state.error]
        /\ pc = "returned" =>
               result = [status |-> "error",
                         message |-> "Error generating response: " \o answer_llm.text,
                         response |-> GenerateApology]

C15_Witness ==
    /\ pc = "returned"
    /\ FailedNodes = {"generate_response"}
    /\ steps = WithWebSearch
    /\ result.status = "error"
    /\ result.response = GenerateApology

\* the lower-cased query contains one of the four keywords
MentionsCrypto(q) ==
    \E i \in 1..Len(q) :
        TermsInWord(LowerWord(q[i])) \cap {"crypto", "bitcoin", "binance", "cryptocurrency"} # {}

\* C20: the query search_web hands to the tool is the user query followed by
\* " cryptocurrency binance" exactly when the lower-cased user query
\* contains none of "crypto", "bitcoin", "binance", "cryptocurrency", and the
\* user query itself otherwise; state.query stays the user query throughout.
C20_SearchQueryAugmented ==
    /\ InSteps("search_web") =>
           /\ Len(web_calls) = 1
           /\ ~MentionsCrypto(query) <=>
                  web_calls[1] = query \o <<"cryptocurrency", "binance">>
           /\ MentionsCrypto(query) <=> web_calls[1] = query
    /\ (pc \in Nodes \cup {"END"} \/ (pc = "returned" /\ InPipeline)) =>
           state.query = query

C20_Witness ==
    /\ pc = "returned"
    /\ query = <<"my", "Bitcoin", "value">>
    /\ web_calls = <<query>>
    /\ state.query = query

\* the n snapshots of S with the greatest timestamps
MostRecent(S, n) == {x \in S : Cardinality({y \in S : y > x}) < n}

\* the snapshots a finished write left, had its prune kept the retention rule
Retained(task) ==
    /\ Cardinality(task.after) <= MAX_PORTFOLIO_RECORDS
    /\ task.after = MostRecent(task.before, MAX_PORTFOLIO_RECORDS)
    /\ Cardinality(task.before \ task.after) =
           IF Cardinality(task.before) > MAX_PORTFOLIO_RECORDS
           THEN Cardinality(task.before) - MAX_PORTFOLIO_RECORDS ELSE 0

C18_WriteDecoupled ==
    /\ \A c \in 1..Len(calls) :
           /\ calls[c].returned = calls[c].fetched
           /\ calls[c].fetched.status = "success" <=> calls[c].task # 0
           /\ calls[c].write = IF calls[c].task # 0 THEN "scheduled" ELSE "none"
           /\ calls[c].task # 0 => tasks[calls[c].task].data = calls[c].returned.data
    /\ \A i \in 1..Len(tasks) :
           /\ tasks[i].escaped = NoneValue
           /\ tasks[i].pc = "done" <=> tasks[i].outcome # NoOutcome

C18_Witness ==
    /\ Len(calls) = 2
    /\ calls[1].task = 1
    /\ calls[2].task = 2
    /\ calls[1].returned = calls[2].returned
    /\ tasks[1].outcome.kind = "raise"
    /\ tasks[2].outcome.kind = "return"
    /\ tasks[1].log = "Error storing holdings in vector DB: timeout"

\* invocation i built its state record
Started(i) == inv[i].state.chat_history # 0

\* C19: process_query invocations that run side by side share no pipeline
\* state: each has its own state record and its own chat_history list, which
\* holds nothing but its own query and response, and a step of one
\* invocation leaves the state record and the list of every other one as
\* they were.
C19_IsolatedState ==
    /\ [](\A i \in InvIds : Started(i) =>
             /\ inv[i].state.query = inv[i].query
             /\ \A j \in InvIds \ {i} :
                    Started(j) => inv[j].state.chat_history # inv[i].state.chat_history
             /\ heap[inv[i].state.chat_history] \in
                    {<<>>, <<[role |-> "user", content |-> inv[i].query],
                             [role |-> "assistant", content |-> inv[i].state.response]>>})
    /\ [][\A i \in InvIds : inv'[i] # inv[i] =>
              \A j \in InvIds \ {i} :
                  /\ inv'[j] = inv[j]
                  /\ Started(j) => heap'[inv[j].state.chat_history]
                                       = heap[inv[j].state.chat_history]]_vars

C19_Witness ==
    /\ inv[1].pc = "returned"
    /\ inv[2].pc = "search_web"
    /\ inv[1].query # inv[2].query
    /\ inv[1].state.chat_history = 2
    /\ inv[2].state.chat_history = 1
    /\ Len(heap[2]) = 2
    /\ heap[1] = <<>>
    /\ inv[1].result.status = "success"

\* ------------------------------------------------------------------- C21
\* search_web recorded no error in this invocation
NoSearchWebError == \A i \in 1..Len(errors) : errors[i].node # "search_web"

\* the block the spec asks for one hit: each field, or its placeholder
Block(hit) ==
    LET source == IF "source" \in DOMAIN hit THEN hit.source ELSE "Unknown source"
        title == IF "title" \in DOMAIN hit THEN hit.title ELSE "No title"
        content == IF "content" \in DOMAIN hit THEN hit.content
                   ELSE IF "snippet" \in DOMAIN hit THEN hit.snippet
                   ELSE "No content available"
    IN  "Source: " \o source \o "\nTitle: " \o title \o "\nContent: " \o content \o "\n"

\* C21: once search_web has run on a list of dict hits, whatever fields they
\* miss, it recorded no error and web_search_results is one
\* Source/Title/Content block per hit, in the hits' order, with the
\* placeholders for the missing fields (content falling back to snippet);
\* on a result that is no list it recorded no error either and reports the
\* unexpected format; in both cases the graph went on to generate_response
C21_MalformedResultFormatted ==
    (InSteps("search_web") /\ (web_tool.structured \/ web_tool.kind = "other")) =>
        /\ NoSearchWebError
        /\ pc \in {"generate_response", "END", "returned"}
        /\ web_tool.structured =>
               state.web_search_results =
                   IF web_tool.hits = <<>> THEN "No relevant search results found."
                   ELSE Join("\n", [i \in 1..Len(web_tool.hits) |-> Block(web_tool.hits[i])])
        /\ web_tool.kind = "other" =>
               state.web_search_results =
                   "Search resulted in unexpected format: ConnectionError('no route')..."

\* search_web ran on two hits, one without any of the fields, one with a
\* snippet in place of the content
C21_Witness ==
    /\ InSteps("search_web")
    /\ web_tool.structured
    /\ web_tool.hits = <<[url |-> "https://y.io"], [title |-> "ETH", snippet |-> "short"]>>
    /\ state.web_search_results =
           "Source: Unknown source\nTitle: No title\nContent: No content available\n"
               \o "\n" \o "Source: Unknown source\nTitle: ETH\nContent: short\n"
    /\ state.error = NoneValue

\* ------------------------------------------------------------------- C22
\* the texts the nodes put on state.error: a prefix and str(e)
ErrorTexts ==
    {prefix \o e : prefix \in {"Error classifying query: ", "Error retrieving context: ",
                               "Error searching web: ", "Error generating response: "},
                   e \in ExcTexts \cup {"'str' object has no attribute 'get'"}}

\* C22: in every result of process_query the response is the text of the
\* answer-writing model call of this invocation or one of the fixed strings
\* (the apology of generate_response, the fallback greeting); the text of
\* an exception is in message only, never in response, whichever step failed
C22_ResponseNeverExceptionText ==
    pc = "returned" =>
        /\ \/ answer_llm.ok /\ result.response = answer_llm.text
           \/ result.response \in {GenerateApology, FallbackGreeting}
        /\ result.response \notin ErrorTexts \cup ExcTexts
        /\ errors # <<>> =>
               /\ result.status = "error"
               /\ result.message = errors[Len(errors)].error
               /\ result.message \in ErrorTexts

\* classify_query and generate_response both failed; the result shows the
\* apology and carries the exception text in message
C22_Witness ==
    /\ pc = "returned"
    /\ Len(errors) = 2
    /\ errors[1].node = "classify_query"
    /\ errors[2].node = "generate_response"
    /\ result.message = "Error generating response: timeout"
    /\ result.response = GenerateApology

\* ------------------------------------------------------------------- C23
\* C23: on the small-talk path process_query returns status "success" and a
\* chat_history of exactly the pair (user: query, assistant: response); the
\* response is the reply model's text when that call succeeds and the fixed
\* fallback greeting when it fails; the result has no other field (no
\* message, no context, no web search results) and no node recorded an error
C23_SmallTalkAlwaysSucceeds ==
    (pc = "returned" /\ LabelledSimple) =>
        /\ result.status = "success"
        /\ result.response = IF answer_llm.ok THEN answer_llm.text ELSE FallbackGreeting
        /\ result.chat_history = <<[role |-> "user", content |-> query],
                                   [role |-> "assistant", content |-> result.response]>>
        /\ DOMAIN result = {"status", "response", "chat_history"}
        /\ errors = <<>>
        /\ state.context = <<>>
        /\ state.web_search_results = ""

\* a small-talk query whose reply call failed
C23_Witness ==
    /\ pc = "returned"
    /\ LabelledSimple
    /\ query = <<"Hello", "there">>
    /\ ~answer_llm.ok
    /\ answer_llm.text = "timeout"
    /\ result.response = FallbackGreeting

\* ------------------------------------------------------------------- C25
\* the field(s) of the AgentState a node is there to write
OutputFields(node) ==
    CASE node = "classify_query" -> {"needs_web_search"}
      [] node = "retrieve_context" -> {"context"}
      [] node = "search_web" -> {"web_search_results"}
      [] node = "generate_response" -> {"response", "chat_history"}

\* the step of the graph that runs `node`
NodeStep(node) == pc = node /\ steps' = Append(steps, node)

\* C25: throughout a graph run state.query is the query process_query was
\* called with, and a node's step leaves every field of the state as it was
\* except the node's own output field(s) and error, whether the node
\* succeeds or fails; the state keeps its keys
C25_Frame ==
    /\ [](InPipeline => state.query = query)
    /\ [][\A node \in Nodes :
             NodeStep(node) =>
                 /\ DOMAIN state' = DOMAIN state
                 /\ \A field \in DOMAIN state \ (OutputFields(node) \cup {"error"}) :
                        state'[field] = state[field]]_vars

\* a run in which three nodes failed or wrote and the query, the context and
\* the flag are still what they were when written
C25_Witness ==
    /\ pc = "END"
    /\ steps = <<"classify_query", "retrieve_context", "search_web", "generate_response">>
    /\ Len(errors) = 2
    /\ state.query = <<"ETH", "price", "trend">>
    /\ state.needs_web_search
    /\ state.context # <<NoDataContext>>
    /\ state.web_search_results = WebFailedText
    /\ state.response = GenerateApology

\* ------------------------------------------------------------------- C26
NoExternalData == "No external data was needed to answer this query."

\* C26: once search_web has run, web_search_results is a non-empty string:
\* the fixed text for an empty hit list, the failure or unexpected-format
\* explanation, or formatted hits; so from the start of generate_response on
\* web_search_results is empty exactly when search_web did not run, and the
\* prompt carries the "no external data was needed" placeholder exactly in
\* the runs whose needs_web_search is false
C26_WebContextNeverEmptyAfterSearch ==
    /\ InSteps("search_web") =>
           /\ state.web_search_results # ""
           /\ web_tool.structured /\ web_tool.hits = <<>> =>
                  state.web_search_results = "No relevant search results found."
           /\ ~NoSearchWebError => state.web_search_results = WebFailedText
    /\ (pc = "generate_response" \/ InSteps("generate_response")) =>
           (state.web_search_results = "" <=> ~InSteps("search_web"))
    /\ InSteps("generate_response") =>
           /\ prompt.web_search_section = NoExternalData <=> ~state.needs_web_search
           /\ state.needs_web_search =>
                  prompt.web_search_section
                      = "Web Search Results:\n" \o state.web_search_results

\* generate_response ran after a web search that found no hit
C26_Witness ==
    /\ InSteps("generate_response")
    /\ web_tool.structured
    /\ web_tool.hits = <<>>
    /\ state.web_search_results = "No relevant search results found."
    /\ prompt.web_search_section
           = "Web Search Results:\nNo relevant search results found."

\* ------------------------------------------------------------------- C24
\* C24: whenever the manager's process_query fetched the holdings
\* successfully and the query agent retrieved context for the query, the
\* write of those holdings was over by then and its snapshot was in the
\* store the retrieval searched
C24_SnapshotStoredBeforeRetrieval ==
    \A c \in 1..Len(calls) :
        (calls[c].fetched.status = "success" /\ calls[c].agent = "retrieved") =>
            /\ calls[c].write_at_retrieval = "done"
            /\ tasks[calls[c].task].timestamp \in calls[c].visible

\* ------------------------------------------------------------------- C27
\* the snapshots a step takes out of the store
Removed == SnapshotsOf(vectorstore) \ SnapshotsOf(vectorstore')

\* the snapshot was among the MAX_PORTFOLIO_RECORDS most recent of the store
AmongMostRecent(ts) == ts \in MostRecent(SnapshotsOf(vectorstore), MAX_PORTFOLIO_RECORDS)

\* the write that stored the snapshot has not returned yet
WriterRunning(ts) == \E i \in 1..Len(tasks) : tasks[i].timestamp = ts /\ tasks[i].pc # "done"

\* C27 as stated: under any interleaving of store_portfolio_data cycles no
\* step removes a snapshot that is among the MAX_PORTFOLIO_RECORDS most
\* recent of the store at that moment, and none removes the snapshot of a
\* cycle that is still running (be it that cycle's prune or another's)
C27_PruneSparesRecentAndOwn ==
    [][\A ts \in Removed : ~AmongMostRecent(ts) /\ ~WriterRunning(ts)]_vars

\* C27: under any interleaving of store_portfolio_data cycles no step
\* removes a snapshot that is among the MAX_PORTFOLIO_RECORDS most recent
\* of the store at that moment, and every snapshot a prune has listed for
\* deletion and not deleted yet has MAX_PORTFOLIO_RECORDS newer snapshots
\* in the store; the snapshot a cycle just wrote is spared only as long as
\* fewer than MAX_PORTFOLIO_RECORDS newer ones were stored before a listing
C27_PruneSparesMostRecent ==
    /\ [](\A i \in 1..Len(tasks) :
             \A k \in 1..Len(tasks[i].records_to_delete) :
                 \A doc \in vectorstore :
                     doc.metadata.portfolio_id = tasks[i].records_to_delete[k] =>
                         ~AmongMostRecent(doc.metadata.timestamp))
    /\ [][\A ts \in Removed : ~AmongMostRecent(ts)]_vars

\* a write returned the id of its snapshot after its own prune had removed
\* it: MAX_PORTFOLIO_RECORDS later writes had stored before it listed
C27_Witness ==
    \E i \in 1..Len(tasks) :
        /\ tasks[i].pc = "done"
        /\ tasks[i].outcome = [kind |-> "return", value |-> vector_id(tasks[i].timestamp)]
        /\ tasks[i].timestamp \in tasks[i].before
        /\ tasks[i].timestamp \notin tasks[i].after
        /\ Cardinality(tasks[i].after) = MAX_PORTFOLIO_RECORDS
        /\ \A ts \in tasks[i].after : ts > tasks[i].timestamp

\* ------------------------------------------------------------------- C28
\* the hits whose portfolio id no earlier hit carries
FirstOfPortfolio(docs) ==
    {i \in 1..Len(docs) :
        \A j \in 1..(i - 1) : docs[j].metadata.portfolio_id # docs[i].metadata.portfolio_id}

\* the first top_k of them
Collected(docs, top_k) ==
    {i \in FirstOfPortfolio(docs) :
        Cardinality({j \in FirstOfPortfolio(docs) : j < i}) < top_k}

\* C28: put to the same index with the same top_k, search_similar_portfolios_sync
\* and search_similar_portfolios return the same list; it has at most one
\* element; when the store search fails it is empty; otherwise it is empty
\* only if no hit was collected, and its element is built from the hit with
\* the newest timestamp among the hits collected for the first top_k
\* distinct portfolio ids
C28_SearchMethodsAgree ==
    search.made =>
        /\ search.sync = search.async
        /\ Len(search.sync) <= 1
        /\ search.fails => search.sync = <<>>
        /\ ~search.fails =>
               LET collected == Collected(search.docs, search.top_k)
               IN  IF collected = {} THEN search.sync = <<>>
                   ELSE /\ Len(search.sync) = 1
                        /\ \E i \in collected :
                              /\ \A j \in collected :
                                     search.docs[j].metadata.timestamp
                                         <= search.docs[i].metadata.timestamp
                              /\ search.sync[1].timestamp = search.docs[i].metadata.timestamp
                              /\ search.sync[1].chunk_id = search.docs[i].metadata.chunk_id

\* a search with top_k = 3 on two snapshots: the complete documents, the
\* older one ranked first, then the hits of the second search; both methods
\* return the newer snapshot, collected second
C28_Witness ==
    /\ search.made
    /\ ~search.fails
    /\ search.top_k = 3
    /\ search.complete = 2
    /\ Len(search.docs) > 2
    /\ search.docs[1].metadata.timestamp = 1
    /\ Collected(search.docs, search.top_k) = {1, 2}
    /\ search.sync = search.async
    /\ search.sync[1].timestamp = 2
    /\ search.sync[1].portfolio = PortfolioData("large")

\* ------------------------------------------------------------------- C29
\* set_access_token has run on this manager (it alone builds the data manager)
AccessTokenSet == _portfolio_manager # NoDataManager

\* C29: KitePortfolioManager is unauthenticated until set_access_token has
\* run: is_authenticated is true exactly when an access token is set, and a
\* call of fetch_portfolio, get_holdings, get_positions, get_margins,
\* get_orders or get_trades made while no token is set raises the "User not
\* authenticated" error without any broker API call, while a call made with a
\* token set does not raise that error.
C29_UnauthenticatedUntilTokenSet ==
    /\ is_authenticated <=> AccessTokenSet
    /\ AccessTokenSet => _portfolio_manager.access_token = _access_token
    /\ kite_call.method \in Operations =>
          /\ kite_call.manager_before = NoDataManager =>
                /\ kite_call.outcome = "raise"
                /\ kite_call.value = NotAuthenticated
                /\ kite_call.requests = <<>>
          /\ kite_call.manager_before # NoDataManager =>
                kite_call.value # NotAuthenticated

\* get_margins, called while no token was set, was refused before any broker
\* call
C29_Witness ==
    /\ ~is_authenticated
    /\ kite_call.method = "get_margins"
    /\ kite_call.outcome = "raise"
    /\ kite_call.value = NotAuthenticated
    /\ kite_call.requests = <<>>

\* ------------------------------------------------------------------- C30
\* the secret is base32 text the TOTP generator can decode
ValidBase32(totp_secret) == TotpNow(totp_secret) = "ok"

MissingCredentials(args) ==
    args.user_id = "" \/ args.password = "" \/ args.totp_secret = <<>>

\* C30: handle_auto_login makes its requests in the order password login,
\* TOTP two-factor, API login redirect, finish redirect, session generation,
\* and changes the access token and the data manager only after all five
\* succeeded; it always returns, with status "error" when validation or a
\* step failed, and then the token and the data manager are what they were
\* before the call; when a credential is missing or the TOTP secret is not
\* valid base32 it makes no request at all.
C30_AutoLoginAllOrNothing ==
    kite_call.method = "handle_auto_login" =>
        LET changed == \/ _access_token # kite_call.token_before
                       \/ _portfolio_manager # kite_call.manager_before
        IN /\ \E k \in 0..Len(LoginSteps) : kite_call.requests = SubSeq(LoginSteps, 1, k)
           /\ kite_call.outcome = "return"
           /\ kite_call.result.status \in {"success", "error"}
           /\ changed => /\ kite_call.requests = LoginSteps
                         /\ kite_call.result.status = "success"
           /\ kite_call.result.status = "error" => ~changed
           /\ \/ MissingCredentials(kite_call.args)
              \/ ~ValidBase32(kite_call.args.totp_secret)
              => kite_call.requests = <<>>
====
